---- MODULE Spec2Model ----
(***************************************************************************)
(* Neo-Librus circulation: the copy pool of an Edition (total_copies,      *)
(* available_copies), Reservation rows that claim and release copies, and  *)
(* Loan rows created by the loans API.  Book rows are updated and deleted *)
(* by the books API; deleting a Book or an Edition cascades.               *)
(*                                                                         *)
(* The database runs in autocommit mode (no ATOMIC_REQUESTS in settings),  *)
(* so every ORM query is one atomic step and a request handler is a        *)
(* sequence of such steps.  A handler keeps the model instances it loaded  *)
(* in memory (local[p]) between its queries.  Time is counted in hours.    *)
(* response is what the step just taken returned to its caller, with the   *)
(* request it answers; a step that returns nothing clears it.              *)
(***************************************************************************)
EXTENDS Integers, FiniteSets, Sequences, TLC

\* ---------------------------------------------------------------- bounds
MaxCopies == 2
MaxReservations == 2
MaxLoans == 1
MaxClock == 48
MaxBooks == 2

\* ------------------------------------------------------------ small sets
Procs == {"p1", "p2"}
EditionIds == {1, 2}
\* the editions of the initial catalogue
InitialEditions == {1}
BookIds == {1}
\* BookIn.title as posted
Titles == {"a", "b"}
Users == {1}
TickHours == {24}
\* request.user as create_loan sees it
Callers == {"none", "anonymous", "no_add_loan", "member"}
\* request.user as the books API sees it
BookCallers == {"none", "anonymous", "member", "librarian"}

\* timedelta(hours=48) in Reservation.save
ReservationHours == 48

VARIABLES books, editions, reservations, loans,
          nextReservationPk, nextLoanPk, clock, pc, local, response

vars == <<books, editions, reservations, loans,
          nextReservationPk, nextLoanPk, clock, pc, local, response>>

\* ------------------------------------------------------------- helpers
\* Edition.book in the catalogue: the editions are editions of book 1
BookOf(e) == 1

\* Loan.returned_at of a loan that is out (NULL)
NotReturned == -1

NoObj == [book |-> 0, total_copies |-> 0, available_copies |-> 0]

NoLocal == [edition |-> 0, obj |-> NoObj, pk |-> 0, user |-> 0,
            book |-> 0, due_at |-> 0, title |-> "", caller |-> "none"]

NoRequest == [op |-> "none", edition |-> 0, pk |-> 0, caller |-> "none",
              book |-> 0, due_at |-> 0, title |-> ""]

\* no handler returned in the last step
NoResponse == [request |-> NoRequest, outcome |-> "none"]

SaveRequest(u, e) == [NoRequest EXCEPT !.op = "Reservation.save", !.edition = e]

DeleteRequest(pk) == [NoRequest EXCEPT !.op = "Reservation.delete", !.pk = pk]

LoanRequest(caller, book_id, due_at) ==
    [NoRequest EXCEPT !.op = "create_loan", !.caller = caller,
                      !.book = book_id, !.due_at = due_at]

BookRequest(op, caller, book_id, title) ==
    [NoRequest EXCEPT !.op = op, !.caller = caller, !.book = book_id,
                      !.title = title]

\* the permissions of request.user: the groups of migration 0002
Perms(caller) ==
    IF caller = "librarian"
    THEN {"add_book", "change_book", "delete_book", "view_book", "view_loan"}
    ELSE IF caller = "member" THEN {"view_book", "add_loan"}
    ELSE {}

\* HasPerm checking the login only
HasPerm_LoginOnly(caller, perm) ==
    IF caller \in {"none", "anonymous"} THEN "AuthenticationRequired" ELSE ""

\* HasPerm.__call__: the error it raises, "" when it returns True
HasPerm(caller, perm) ==
    IF caller \in {"none", "anonymous"} THEN "AuthenticationRequired"
    ELSE IF perm \notin Perms(caller) THEN "InsufficientPermissions"
    ELSE ""

\* on_delete=CASCADE: the editions that go with the books in bs
EditionsOfBooks(bs) == {e \in DOMAIN editions : editions[e].book \in bs}

\* Model.delete() of the books bs and the editions es: the collector removes
\* them and every row that refers to them in one transaction, without
\* calling Reservation.delete
CascadeDelete(bs, es) ==
    /\ books' = [b \in DOMAIN books \ bs |-> books[b]]
    /\ editions' = [e \in DOMAIN editions \ es |-> editions[e]]
    /\ reservations' = [k \in {r \in DOMAIN reservations :
                                  reservations[r].edition \notin es}
                          |-> reservations[k]]
    /\ loans' = [k \in {l \in DOMAIN loans : loans[l].book \notin bs}
                   |-> loans[k]]

\* django.utils.timezone.now() / datetime.now(timezone.utc)
now == clock

\* Model.save() of a row with a primary key: UPDATE of every field
SaveRow(table, pk, row) ==
    [k \in DOMAIN table \cup {pk} |-> IF k = pk THEN row ELSE table[k]]

\* DELETE ... WHERE id = pk (removing a row that is gone deletes nothing)
DeleteRow(table, pk) == [k \in DOMAIN table \ {pk} |-> table[k]]

\* reserve_copy with the test off by one
CanReserve_OffByOne(obj) == obj.available_copies >= 0

\* Edition.reserve_copy: the test on the in-memory instance
CanReserve(obj) == obj.available_copies > 0

\* Edition.save() of an in-memory row: the UPDATE, or when the row is gone
\* the INSERT, which needs the row's book (foreign key)
CanSaveEdition(e, obj) == e \in DOMAIN editions \/ obj.book \in DOMAIN books

\* Edition.reserve_copy: the in-memory decrement
Reserved(obj) == [obj EXCEPT !.available_copies = @ - 1]

\* Edition.release_copy: the test on the in-memory instance
CanRelease(obj) == obj.available_copies < obj.total_copies

\* Edition.release_copy: the in-memory increment
Released(obj) == [obj EXCEPT !.available_copies = @ + 1]

\* expires_at values a form can post
ExpiryValues == {0, ReservationHours}

\* Reservation.save: expires_at of a new reservation
ExpiresAt(t) == t + ReservationHours

\* the due date check letting due_at = now through
DueDateInvalid_Strict(due_at, t) == due_at < t

\* create_loan: the due date check
DueDateInvalid(due_at, t) == due_at <= t

\* requests in flight that will insert a Reservation row
PendingReservations ==
    Cardinality({p \in Procs : pc[p] \in {"reserve_copy_save", "reservation_insert"}})

PendingLoans == Cardinality({p \in Procs : pc[p] = "loan_create"})

\* the handler of p returns outcome r for request req
Finish(p, req, r) ==
    /\ pc' = [pc EXCEPT ![p] = "idle"]
    /\ local' = [local EXCEPT ![p] = NoLocal]
    /\ response' = [request |-> req, outcome |-> r]

\* the handler of p goes on to its next query
Goto(p, label, loc) ==
    /\ pc' = [pc EXCEPT ![p] = label]
    /\ local' = [local EXCEPT ![p] = loc]
    /\ response' = NoResponse

\* ---------------------------------------------------------------- Init
Init ==
    /\ books = [b \in BookIds |-> [title |-> "a"]]
    /\ editions = [e \in InitialEditions |->
                     [book |-> BookOf(e), total_copies |-> MaxCopies,
                      available_copies |-> MaxCopies]]
    /\ reservations = << >>
    /\ loans = << >>
    /\ nextReservationPk = 1
    /\ nextLoanPk = 1
    /\ clock = 0
    /\ pc = [p \in Procs |-> "idle"]
    /\ local = [p \in Procs |-> NoLocal]
    /\ response = NoResponse

\* the store with every edition of EditionIds in it, each pool full
InitTwoEditions ==
    /\ books = [b \in BookIds |-> [title |-> "a"]]
    /\ editions = [e \in EditionIds |->
                     [book |-> BookOf(e), total_copies |-> MaxCopies,
                      available_copies |-> MaxCopies]]
    /\ reservations = <<>>
    /\ loans = <<>>
    /\ nextReservationPk = 1
    /\ nextLoanPk = 1
    /\ clock = 0
    /\ pc = [p \in Procs |-> "idle"]
    /\ local = [p \in Procs |-> NoLocal]
    /\ response = NoResponse

\* ------------------------------------------------- Reservation.save (new)
\* Reservation.save, `not self.pk`: self.edition is fetched and
\* Edition.reserve_copy tests and decrements the in-memory instance
ReservationSave_ReserveCopy(p, u, e) ==
    /\ pc[p] = "idle"
    /\ e \in DOMAIN editions
    /\ UNCHANGED <<books, editions, reservations, loans, nextReservationPk,
                   nextLoanPk, clock>>
    /\ IF CanReserve(editions[e])
       THEN /\ nextReservationPk + PendingReservations <= MaxReservations
            /\ Goto(p, "reserve_copy_save",
                 [NoLocal EXCEPT !.edition = e, !.user = u,
                                 !.obj = Reserved(editions[e])])
       ELSE Finish(p, SaveRequest(u, e), "NoCopiesAvailable")

\* Edition.reserve_copy: self.save() writes the whole in-memory row
ReserveCopy_Save(p) ==
    /\ pc[p] = "reserve_copy_save"
    /\ UNCHANGED <<books, reservations, loans, nextReservationPk, nextLoanPk,
                   clock>>
    /\ IF CanSaveEdition(local[p].edition, local[p].obj)
       THEN /\ editions' = SaveRow(editions, local[p].edition, local[p].obj)
            /\ pc' = [pc EXCEPT ![p] = "reservation_insert"]
            /\ UNCHANGED local
            /\ response' = NoResponse
       ELSE /\ UNCHANGED editions
            /\ Finish(p, SaveRequest(local[p].user, local[p].edition), "StorageError")

\* Reservation.save: expires_at is set and super().save() inserts the row
Reservation_Insert(p) ==
    /\ pc[p] = "reservation_insert"
    /\ local[p].edition \in DOMAIN editions
    /\ reservations' = SaveRow(reservations, nextReservationPk,
                               [user |-> local[p].user,
                                edition |-> local[p].edition,
                                created_at |-> now,
                                expires_at |-> ExpiresAt(now)])
    /\ nextReservationPk' = nextReservationPk + 1
    /\ Finish(p, SaveRequest(local[p].user, local[p].edition), "ok")
    /\ UNCHANGED <<books, editions, loans, nextLoanPk, clock>>

\* Reservation.save: super().save() raises (database error); the exception
\* leaves save() with nothing undone
Reservation_InsertFails(p) ==
    /\ pc[p] = "reservation_insert"
    /\ Finish(p, SaveRequest(local[p].user, local[p].edition), "StorageError")
    /\ UNCHANGED <<books, editions, reservations, loans, nextReservationPk,
                   nextLoanPk, clock>>

\* ------------------------------------- AsyncRepository.delete / Reservation.delete
\* AsyncRepository.delete: get_by_id, False when the row is not there
Delete_GetById(p, pk) ==
    /\ pc[p] = "idle"
    /\ UNCHANGED <<books, editions, reservations, loans, nextReservationPk,
                   nextLoanPk, clock>>
    /\ IF pk \in DOMAIN reservations
       THEN Goto(p, "release_copy",
                 [NoLocal EXCEPT !.pk = pk,
                                 !.edition = reservations[pk].edition])
       ELSE Finish(p, DeleteRequest(pk), "NotFound")

\* Reservation.delete: self.edition is fetched and Edition.release_copy
\* tests and increments the in-memory instance; at a full pool it does nothing
Delete_ReleaseCopy(p) ==
    /\ pc[p] = "release_copy"
    /\ UNCHANGED <<books, editions, reservations, loans, nextReservationPk,
                   nextLoanPk, clock>>
    /\ IF local[p].edition \notin DOMAIN editions
       THEN Finish(p, DeleteRequest(local[p].pk), "EditionNotFound")
       ELSE /\ response' = NoResponse
            /\ IF CanRelease(editions[local[p].edition])
               THEN /\ pc' = [pc EXCEPT ![p] = "release_copy_save"]
                    /\ local' = [local EXCEPT ![p].obj = Released(editions[local[p].edition])]
               ELSE /\ pc' = [pc EXCEPT ![p] = "reservation_delete"]
                    /\ local' = [local EXCEPT ![p].obj = editions[local[p].edition]]

\* Edition.release_copy: self.save() writes the whole in-memory row
ReleaseCopy_Save(p) ==
    /\ pc[p] = "release_copy_save"
    /\ UNCHANGED <<books, reservations, loans, nextReservationPk, nextLoanPk,
                   clock>>
    /\ IF CanSaveEdition(local[p].edition, local[p].obj)
       THEN /\ editions' = SaveRow(editions, local[p].edition, local[p].obj)
            /\ pc' = [pc EXCEPT ![p] = "reservation_delete"]
            /\ UNCHANGED local
            /\ response' = NoResponse
       ELSE /\ UNCHANGED editions
            /\ Finish(p, DeleteRequest(local[p].pk), "StorageError")

\* Reservation.delete: super().delete() removes the row
Reservation_Delete(p) ==
    /\ pc[p] = "reservation_delete"
    /\ reservations' = DeleteRow(reservations, local[p].pk)
    /\ Finish(p, DeleteRequest(local[p].pk), "ok")
    /\ UNCHANGED <<books, editions, loans, nextReservationPk, nextLoanPk,
                   clock>>

\* ------------------------------------------------------------ create_loan
\* create_loan up to the book lookup: the checks in the order of the code
create_loan(p, caller, book_id, due_at) ==
    /\ pc[p] = "idle"
    /\ UNCHANGED <<books, editions, reservations, loans, nextReservationPk,
                   nextLoanPk, clock>>
    /\ IF caller \in {"none", "anonymous"}
       THEN Finish(p, LoanRequest(caller, book_id, due_at), "AuthenticationRequired")
       ELSE IF caller # "member"
       THEN Finish(p, LoanRequest(caller, book_id, due_at), "InsufficientPermissions")
       ELSE IF DueDateInvalid(due_at, now)
       THEN Finish(p, LoanRequest(caller, book_id, due_at), "InvalidDueDate")
       ELSE IF book_id \notin DOMAIN books
       THEN Finish(p, LoanRequest(caller, book_id, due_at), "BookNotFound")
       ELSE /\ nextLoanPk + PendingLoans <= MaxLoans
            /\ Goto(p, "loan_create",
                 [NoLocal EXCEPT !.book = book_id, !.due_at = due_at,
                                 !.caller = caller,
                                 !.user = CHOOSE u \in Users : TRUE])

\* create_loan: repo.create inserts the Loan row
Loan_Create(p) ==
    /\ pc[p] = "loan_create"
    /\ UNCHANGED <<books, editions, reservations, nextReservationPk, clock>>
    /\ IF local[p].book \in DOMAIN books
       THEN /\ loans' = SaveRow(loans, nextLoanPk,
                                [borrower |-> local[p].user, book |-> local[p].book,
                                 borrowed_at |-> now, due_at |-> local[p].due_at,
                                 returned_at |-> NotReturned])
            /\ nextLoanPk' = nextLoanPk + 1
            /\ Finish(p, LoanRequest(local[p].caller, local[p].book, local[p].due_at), "ok")
       ELSE /\ UNCHANGED <<loans, nextLoanPk>>
            /\ Finish(p, LoanRequest(local[p].caller, local[p].book, local[p].due_at),
                      "StorageError")

\* ------------------------------------------------------------------ time
Tick(d) ==
    /\ clock + d <= MaxClock
    /\ clock' = clock + d
    /\ UNCHANGED <<books, editions, reservations, loans, nextReservationPk,
                   nextLoanPk, pc, local>>
    /\ response' = NoResponse

\* ------------------------------------------------------------ EditionAdmin
\* EditionAdmin change form: every editable field of the row is saved as posted
EditionAdmin_Change(e, t, a) ==
    /\ e \in DOMAIN editions
    /\ editions' = SaveRow(editions, e,
                           [editions[e] EXCEPT !.total_copies = t,
                                               !.available_copies = a])
    /\ UNCHANGED <<books, reservations, loans, nextReservationPk, nextLoanPk,
                   clock, pc, local>>
    /\ response' = NoResponse

\* EditionAdmin delete view: obj.delete()
EditionAdmin_Delete(e) ==
    /\ e \in DOMAIN editions
    /\ CascadeDelete({}, {e})
    /\ UNCHANGED <<nextReservationPk, nextLoanPk, clock, pc, local>>
    /\ response' = NoResponse

\* --------------------------------------------------------- ReservationAdmin
\* ReservationAdmin change form: Reservation.save with pk set goes straight
\* to super().save(), which writes the posted edition and expires_at
ReservationAdmin_Change(pk, e, x) ==
    /\ pk \in DOMAIN reservations
    /\ e \in DOMAIN editions
    /\ reservations' = SaveRow(reservations, pk,
                               [reservations[pk] EXCEPT !.edition = e,
                                                        !.expires_at = x])
    /\ UNCHANGED <<books, editions, loans, nextReservationPk,
                   nextLoanPk, clock, pc, local>>
    /\ response' = NoResponse

\* -------------------------------------------------------------- books API
\* create_book: HasPerm, then repo.create(**payload.dict()) hands isbn and
\* copies to Book(...), which has no such fields: Model.__init__ raises
\* TypeError before any query
create_book(p, caller, title) ==
    /\ pc[p] = "idle"
    /\ UNCHANGED <<books, editions, reservations, loans,
                   nextReservationPk, nextLoanPk, clock>>
    /\ IF HasPerm(caller, "add_book") # ""
       THEN Finish(p, BookRequest("create_book", caller, 0, title),
                   HasPerm(caller, "add_book"))
       ELSE Finish(p, BookRequest("create_book", caller, 0, title), "TypeError")

\* update_book: HasPerm, then repo.update fetches the row and sets the
\* posted fields on the instance
update_book(p, caller, book_id, title) ==
    /\ pc[p] = "idle"
    /\ UNCHANGED <<books, editions, reservations, loans,
                   nextReservationPk, nextLoanPk, clock>>
    /\ IF HasPerm(caller, "change_book") # ""
       THEN Finish(p, BookRequest("update_book", caller, book_id, title),
                   HasPerm(caller, "change_book"))
       ELSE IF book_id \notin DOMAIN books
       THEN Finish(p, BookRequest("update_book", caller, book_id, title),
                   "BookNotFound")
       ELSE Goto(p, "book_save",
                 [NoLocal EXCEPT !.book = book_id, !.title = title,
                                 !.caller = caller])

\* repo.update: obj.asave() writes the row (and inserts it when it is gone)
Book_Save(p) ==
    /\ pc[p] = "book_save"
    /\ books' = SaveRow(books, local[p].book, [title |-> local[p].title])
    /\ Finish(p, BookRequest("update_book", local[p].caller, local[p].book,
                             local[p].title), "ok")
    /\ UNCHANGED <<editions, reservations, loans,
                   nextReservationPk, nextLoanPk, clock>>

\* delete_book: HasPerm, then repo.delete fetches the row; a missing row is
\* answered {"deleted": false}
delete_book(p, caller, book_id) ==
    /\ pc[p] = "idle"
    /\ UNCHANGED <<books, editions, reservations, loans,
                   nextReservationPk, nextLoanPk, clock>>
    /\ IF HasPerm(caller, "delete_book") # ""
       THEN Finish(p, BookRequest("delete_book", caller, book_id, ""),
                   HasPerm(caller, "delete_book"))
       ELSE IF book_id \notin DOMAIN books
       THEN Finish(p, BookRequest("delete_book", caller, book_id, ""),
                   "NotDeleted")
       ELSE Goto(p, "book_delete",
                 [NoLocal EXCEPT !.book = book_id, !.caller = caller])

\* repo.delete: obj.adelete() removes the book with its editions, their
\* reservations and its loans
Book_Delete(p) ==
    /\ pc[p] = "book_delete"
    /\ CascadeDelete({local[p].book}, EditionsOfBooks({local[p].book}))
    /\ Finish(p, BookRequest("delete_book", local[p].caller, local[p].book, ""),
              "ok")
    /\ UNCHANGED <<nextReservationPk, nextLoanPk, clock>>

\* ------------------------------------------------------------------ Next
\* no handler is under way
AllIdle == \A p \in Procs : pc[p] = "idle"

\* the next query of a handler that is under way
HandlerStep(p) ==
    \/ ReserveCopy_Save(p)
    \/ Reservation_Insert(p)
    \/ Reservation_InsertFails(p)
    \/ Delete_ReleaseCopy(p)
    \/ ReleaseCopy_Save(p)
    \/ Reservation_Delete(p)

ReservationNext ==
    \/ \E p \in Procs, u \in Users, e \in EditionIds : ReservationSave_ReserveCopy(p, u, e)
    \/ \E p \in Procs, pk \in 1..MaxReservations : Delete_GetById(p, pk)
    \/ \E p \in Procs : HandlerStep(p)

LoanNext ==
    \/ \E p \in Procs, c \in Callers, b \in BookIds \cup {0}, d \in {-1, 0, 1} :
          create_loan(p, c, b, now + d)
    \/ \E p \in Procs : Loan_Create(p)

ClockNext == \E d \in TickHours : Tick(d)

AdminNext ==
    \E e \in EditionIds, t \in 0..MaxCopies, a \in 0..MaxCopies :
        EditionAdmin_Change(e, t, a)

BooksNext ==
    \/ \E p \in Procs, c \in BookCallers, t \in Titles : create_book(p, c, t)
    \/ \E p \in Procs, c \in BookCallers, b \in 1..MaxBooks, t \in Titles :
          update_book(p, c, b, t)
    \/ \E p \in Procs : Book_Save(p)
    \/ \E p \in Procs, c \in BookCallers, b \in 1..MaxBooks : delete_book(p, c, b)
    \/ \E p \in Procs : Book_Delete(p)

DeleteBookNext ==
    \/ \E p \in Procs, c \in BookCallers, b \in 1..MaxBooks : delete_book(p, c, b)
    \/ \E p \in Procs : Book_Delete(p)

EditionDeleteNext == \E e \in EditionIds : EditionAdmin_Delete(e)

ReservationAdminNext ==
    \E pk \in 1..MaxReservations, e \in EditionIds, x \in ExpiryValues :
        ReservationAdmin_Change(pk, e, x)

Next == ReservationNext \/ LoanNext \/ ClockNext

\* reservations and loans over time
Spec == Init /\ [][Next]_vars

\* reservations while staff edit Edition rows in the admin
SpecAdmin == Init /\ [][ReservationNext \/ AdminNext]_vars

\* the loans API over time
SpecLoans == Init /\ [][LoanNext \/ ClockNext]_vars

\* reservations over time; a handler that is under way finishes and time
\* passes, but nobody is obliged to send a request
SpecExpiry ==
    /\ Init
    /\ [][ReservationNext \/ ClockNext]_vars
    /\ \A p \in Procs : WF_vars(HandlerStep(p))
    /\ WF_vars(ClockNext)

SpecCascade ==
    Init /\ [][ReservationNext \/ EditionDeleteNext \/ DeleteBookNext]_vars

\* create, admin change and delete of reservations run one after another
\* (no handler starts while another is under way) with no database error
SequentialNext ==
    \/ \E p \in Procs, u \in Users, e \in EditionIds :
          AllIdle /\ ReservationSave_ReserveCopy(p, u, e)
    \/ \E p \in Procs : ReserveCopy_Save(p)
    \/ \E p \in Procs : Reservation_Insert(p)
    \/ \E p \in Procs, pk \in 1..MaxReservations :
          AllIdle /\ Delete_GetById(p, pk)
    \/ \E p \in Procs : Delete_ReleaseCopy(p)
    \/ \E p \in Procs : ReleaseCopy_Save(p)
    \/ \E p \in Procs : Reservation_Delete(p)
    \/ AllIdle /\ ReservationAdminNext
    \/ AllIdle /\ ClockNext

SpecSequential == InitTwoEditions /\ [][SequentialNext]_vars

SpecBooks == Init /\ [][BooksNext \/ LoanNext]_vars

TypeOK ==
    /\ DOMAIN books \subseteq 1..MaxBooks
    /\ DOMAIN editions \subseteq EditionIds
    /\ \A e \in DOMAIN editions : editions[e].available_copies \in Int
    /\ DOMAIN reservations \subseteq 1..MaxReservations
    /\ DOMAIN loans \subseteq 1..MaxLoans
    /\ clock \in 0..MaxClock
    /\ \A p \in Procs : pc[p] \in {"idle", "reserve_copy_save", "reservation_insert",
                                   "release_copy", "release_copy_save",
                                   "reservation_delete", "loan_create",
                                   "book_save", "book_delete"}

\* ---------------------------------------------------------------- claims
OpenReservations(e) == {k \in DOMAIN reservations : reservations[k].edition = e}

OpenLoans(e) ==
    {k \in DOMAIN loans : /\ loans[k].book = editions[e].book
                          /\ loans[k].returned_at = NotReturned}

\* every other handler is idle
Alone(p) == \A q \in Procs \ {p} : pc[q] = "idle"

\* the database tables
Store == <<books, editions, reservations, loans>>

\* C1: whenever no handler is under way, every edition has as many open
\* reservations and loans as copies taken out of its pool
\* (total_copies - available_copies).
C1_OpenRecordsMatchPool ==
    AllIdle =>
        \A e \in DOMAIN editions :
            Cardinality(OpenReservations(e)) + Cardinality(OpenLoans(e))
                = editions[e].total_copies - editions[e].available_copies

\* C2: in every state every edition has 0 <= available_copies <= total_copies.
C2_CounterWithinBounds ==
    \A e \in DOMAIN editions :
        /\ 0 <= editions[e].available_copies
        /\ editions[e].available_copies <= editions[e].total_copies

\* C3: two reservation creations under way on the same edition never both
\* pass the availability test on its last copy (available_copies = 1): one
\* of them has to see the other's claim and fail.
C3_LastCopyOneWinner ==
    \A p, q \in Procs :
        ~ /\ p # q
          /\ pc[p] = "reserve_copy_save"
          /\ pc[q] = "reserve_copy_save"
          /\ local[p].edition = local[q].edition
          /\ editions[local[p].edition].available_copies = 1

\* C4: closing a record twice in sequence: with no other handler under way
\* and the record still open, the release of the first close raises
\* available_copies by one; the close answers ok with the row gone; and a
\* close of a record that is gone answers NotFound and changes nothing.
C4_CloseTwiceReleasesOnce ==
    [][\A p \in Procs :
        /\ (Alone(p) /\ local[p].pk \in DOMAIN reservations
               /\ pc[p] = "release_copy" /\ pc'[p] # "release_copy")
              => local'[p].obj.available_copies
                    = editions[local[p].edition].available_copies + 1
        /\ (pc[p] = "reservation_delete" /\ pc'[p] = "idle")
              => /\ response'.outcome = "ok"
                 /\ local[p].pk \notin DOMAIN reservations'
                 /\ editions' = editions
        /\ (response'.request.op = "Reservation.delete" /\ pc' = pc)
              => /\ response'.outcome = "NotFound"
                 /\ response'.request.pk \notin DOMAIN reservations
                 /\ Store' = Store]_vars

\* C5: two closes of the same reservation are never both past the point
\* where a close could find the record already closed: at most one of them
\* runs release_copy for it.
C5_OneCloseReleases ==
    \A p, q \in Procs :
        ~ /\ p # q
          /\ pc[p] \in {"release_copy_save", "reservation_delete"}
          /\ pc[q] \in {"release_copy_save", "reservation_delete"}
          /\ local[p].pk = local[q].pk

\* C6: when the insert of a new reservation row fails, the step that returns
\* the error gives the claimed copy back: available_copies of the edition is
\* one higher after it than before.
C6_FailedInsertRollsBack ==
    [][\A p \in Procs :
        (pc[p] = "reservation_insert" /\ pc'[p] = "idle"
           /\ response'.outcome = "StorageError")
        => editions'[local[p].edition].available_copies
              = editions[local[p].edition].available_copies + 1]_vars

\* C7: a reservation creation that finds available_copies = 0 goes no
\* further than the test: it answers NoCopiesAvailable and the tables are as
\* they were; and NoCopiesAvailable is only ever answered at an empty pool.
C7_EmptyPoolRefuses ==
    [][/\ \A p \in Procs :
            (pc[p] = "idle" /\ pc'[p] = "reserve_copy_save")
            => editions[local'[p].edition].available_copies > 0
       /\ (response'.request.op = "Reservation.save" /\ pc' = pc)
            => /\ editions[response'.request.edition].available_copies = 0
               /\ response'.outcome = "NoCopiesAvailable"
               /\ Store' = Store
               /\ nextReservationPk' = nextReservationPk
       /\ response'.outcome = "NoCopiesAvailable"
            => /\ response'.request.op = "Reservation.save"
               /\ pc' = pc]_vars

\* a creation has just been refused at an empty pool
C7_Witness ==
    /\ response.outcome = "NoCopiesAvailable"
    /\ response.request.edition \in DOMAIN editions
    /\ editions[response.request.edition].available_copies = 0

\* C8: a reservation whose expires_at has been reached is eventually closed
\* (its row leaves the open reservations) even if no user ever cancels it.
C8_ExpiredIsReclaimed ==
    \A k \in 1..MaxReservations :
        (k \in DOMAIN reservations /\ reservations[k].expires_at <= now)
            ~> (k \notin DOMAIN reservations)

\* C9: loans draw on the edition's pool: create_loan goes on to insert a loan
\* only if an edition of the book has a copy available, and the step that
\* inserts the loan lowers that edition's available_copies by one.
C9_LoanClaimsCopy ==
    [][\A p \in Procs :
        /\ (pc[p] = "idle" /\ pc'[p] = "loan_create")
              => \E e \in DOMAIN editions :
                    /\ editions[e].book = local'[p].book
                    /\ editions[e].available_copies > 0
        /\ (pc[p] = "loan_create" /\ pc'[p] = "idle" /\ response'.outcome = "ok")
              => \E e \in DOMAIN editions :
                    /\ editions[e].book = local[p].book
                    /\ editions'[e].available_copies
                          = editions[e].available_copies - 1]_vars

\* a create_loan call answered in its first step
LoanAnswered == response'.request.op = "create_loan" /\ pc' = pc

\* a create_loan call that goes on to insert its loan
LoanAccepted(p) == pc[p] = "idle" /\ pc'[p] = "loan_create"

\* C10 as stated: every create_loan call with due_at <= now is answered
\* InvalidDueDate with no loan created and the editions unchanged, and no
\* such call goes on to insert a loan.
C10_PastDueDateIsInvalidDueDate ==
    [][/\ (LoanAnswered /\ response'.request.due_at <= now)
            => /\ response'.outcome = "InvalidDueDate"
               /\ Store' = Store
       /\ \A p \in Procs :
            LoanAccepted(p) => local'[p].due_at > now]_vars

\* C10 amended: a create_loan call with due_at <= now is answered
\* InvalidDueDate when the caller is authenticated and holds domain.add_loan,
\* and is answered with the permission error otherwise; in both cases no loan
\* is created and the editions are unchanged, and no such call goes on to
\* insert a loan.
C10_PastDueDateIsRefused ==
    [][/\ (LoanAnswered /\ response'.request.due_at <= now)
            => /\ response'.outcome =
                     IF response'.request.caller \in {"none", "anonymous"}
                     THEN "AuthenticationRequired"
                     ELSE IF response'.request.caller # "member"
                     THEN "InsufficientPermissions"
                     ELSE "InvalidDueDate"
               /\ Store' = Store
               /\ nextLoanPk' = nextLoanPk
       /\ \A p \in Procs :
            LoanAccepted(p) => local'[p].due_at > now]_vars

\* a permitted caller has just been refused a loan due exactly now
C10_Witness ==
    /\ response.request.op = "create_loan"
    /\ response.request.caller = "member"
    /\ response.request.due_at = now
    /\ response.outcome = "InvalidDueDate"

\* the permission each guarded endpoint asks for
Required(op) ==
    CASE op = "create_loan" -> "add_loan"
      [] op = "create_book" -> "add_book"
      [] op = "update_book" -> "change_book"
      [] op = "delete_book" -> "delete_book"
      [] OTHER -> ""

GuardedOps == {"create_loan", "create_book", "update_book", "delete_book"}

\* the request must be refused: no login, no permission, or for create_loan
\* a due date that is not in the future or a book that does not exist
MustRefuse(req) ==
    \/ req.caller \in {"none", "anonymous"}
    \/ Required(req.op) \notin Perms(req.caller)
    \/ /\ req.op = "create_loan"
       /\ \/ req.due_at <= now
          \/ req.book \notin DOMAIN books

Refusals == {"AuthenticationRequired", "InsufficientPermissions",
             "InvalidDueDate", "BookNotFound"}

\* the request a handler carries past its checks
Carried(p, op) ==
    [NoRequest EXCEPT !.op = op, !.caller = local'[p].caller,
                      !.book = local'[p].book, !.due_at = local'[p].due_at]

\* C11: a create_loan, create_book, update_book or delete_book call by a
\* caller without login or permission, and a create_loan call with an invalid
\* due date or a missing book, is answered with an error in its first step
\* with books, editions, reservations, loans and the key counters unchanged,
\* and never gets past the checks to a query
C11_RefusedBeforeMutation ==
    [][/\ (/\ pc' = pc
          /\ response'.request.op \in GuardedOps
          /\ MustRefuse(response'.request))
         => /\ response'.outcome \in Refusals
            /\ Store' = Store
            /\ UNCHANGED <<nextLoanPk, nextReservationPk>>
       /\ \A p \in Procs :
            /\ pc[p] = "idle" /\ pc'[p] = "loan_create"
                 => ~MustRefuse(Carried(p, "create_loan"))
            /\ pc[p] = "idle" /\ pc'[p] = "book_save"
                 => ~MustRefuse(Carried(p, "update_book"))
            /\ pc[p] = "idle" /\ pc'[p] = "book_delete"
                 => ~MustRefuse(Carried(p, "delete_book"))]_vars

\* a member was refused delete_book while an update_book of a librarian was
\* between its check and its write
C11_Witness ==
    /\ response.request.op = "delete_book"
    /\ response.request.caller = "member"
    /\ response.outcome = "InsufficientPermissions"
    /\ \E p \in Procs : pc[p] = "book_save"

\* C12: a release on an edition whose stored available_copies equals
\* total_copies is answered AlreadyFull in that step, with the counter
\* unchanged and the handler stopped.
C12_FullPoolReleaseSignals ==
    [][\A p \in Procs :
        (/\ pc[p] = "release_copy"
         /\ local[p].edition \in DOMAIN editions
         /\ editions[local[p].edition].available_copies
               = editions[local[p].edition].total_copies)
          => /\ response'.outcome = "AlreadyFull"
             /\ pc'[p] = "idle"
             /\ editions' = editions]_vars

\* C13: a reservation row, once in the store, stays in the store: no step
\* of a cancellation removes it.
C13_RecordsAreRetained ==
    [][\A k \in DOMAIN reservations : k \in DOMAIN reservations']_vars

\* C14: an edition leaves the store only when none of its records is open:
\* in the step that removes an edition row (the edition's own delete or the
\* cascade of delete_book) no reservation and no loan out refers to it.
C14_DeleteClosesRecordsFirst ==
    [][\A e \in DOMAIN editions :
        e \notin DOMAIN editions'
          => OpenReservations(e) = {} /\ OpenLoans(e) = {}]_vars

\* open allocation records of edition e
OpenCount(e) == Cardinality(OpenReservations(e)) + Cardinality(OpenLoans(e))

\* C15: every step that changes an edition's total_copies reconciles the
\* pool: the new total is not below the number of open records (such a
\* change is rejected, so it never shows), and afterwards available_copies
\* is the new total minus the number of open records.
C15_ReprovisionReconciles ==
    [][\A e \in DOMAIN editions \cap DOMAIN editions' :
        editions'[e].total_copies # editions[e].total_copies
          => /\ editions'[e].total_copies >= OpenCount(e)
             /\ editions'[e].available_copies
                   = editions'[e].total_copies - OpenCount(e)]_vars

\* C16: every step that changes an edition's stored available_copies is the
\* save of a claim on that edition, lowering it by one, or the save of a
\* release on that edition, raising it by one.
C16_OnlyClaimAndReleaseWrite ==
    [][\A e \in DOMAIN editions \cap DOMAIN editions' :
        editions'[e].available_copies # editions[e].available_copies
          => \E p \in Procs :
               /\ local[p].edition = e
               /\ pc'[p] # pc[p]
               /\ \/ /\ pc[p] = "reserve_copy_save"
                     /\ editions'[e].available_copies
                           = editions[e].available_copies - 1
                  \/ /\ pc[p] = "release_copy_save"
                     /\ editions'[e].available_copies
                           = editions[e].available_copies + 1]_vars

\* C17: a reservation row enters the store with expires_at equal to the time
\* of its creation plus 48 hours, and no later step changes the expires_at
\* of a stored reservation.
C17_ExpiryIsCreationPlus48 ==
    [][/\ \A k \in DOMAIN reservations' \ DOMAIN reservations :
            reservations'[k].expires_at = now + 48
       /\ \A k \in DOMAIN reservations \cap DOMAIN reservations' :
            reservations'[k].expires_at = reservations[k].expires_at]_vars

\* C18: once every reservation that was created has been deleted and no
\* handler is under way, every edition's available_copies is back at the
\* value it had before the reservations were created (the full pool), also
\* when a reservation's edition field was changed in between.
C18_DeleteReturnsCopyToItsEdition ==
    (AllIdle /\ DOMAIN reservations = {})
        => \A e \in DOMAIN editions :
              editions[e].available_copies = editions[e].total_copies

====
